---- MODULE Spec2Model ----
(***************************************************************************)
(* A model of src/src/FreeverseIdentity.js (the functional facade, lines   *)
(* 149-285): derivation of an account from a private key, the password     *)
(* based identity codec (encryptIdentity / decryptIdentity) and the        *)
(* public-key message codec (encryptWithPublicKey / decryptWithPrivateKey).*)
(*                                                                         *)
(* Strings are sequences of one-character strings, bytes are 0..255, a     *)
(* CryptoJS WordArray is [words, sigBytes] with a word a tuple of 4 bytes. *)
(* All sizes are the program's (16-byte salt, 48-byte KDF output, 32-byte  *)
(* key, 16-byte IV and cipher block, 32-byte private key).  The primitives *)
(* of the libraries (PBKDF2, the AES block function, the curve, the hash   *)
(* and the MAC) are small stand-ins with the same types: deterministic     *)
(* functions, and for the block function a keyed permutation.  Their mode  *)
(* of use (CBC chaining, PKCS7 padding and CryptoJS's unchecked unpadding, *)
(* hex encoding, the framing of an encrypted message) is the libraries'.   *)
(***************************************************************************)
EXTENDS Integers, Sequences, FiniteSets, TLC

(***************************************************************************)
(* Bytes, characters and hexadecimal                                       *)
(***************************************************************************)
Byte == 0..255

HexDigits == <<"0","1","2","3","4","5","6","7","8","9","a","b","c","d","e","f">>

UpperDigits == <<"0","1","2","3","4","5","6","7","8","9","A","B","C","D","E","F">>

\* The value of a hexadecimal digit, either case; -1 for any other character.
HexVal(ch) ==
  IF \E i \in 1..16 : HexDigits[i] = ch
    THEN (CHOOSE i \in 1..16 : HexDigits[i] = ch) - 1
    ELSE IF \E i \in 1..16 : UpperDigits[i] = ch
      THEN (CHOOSE i \in 1..16 : UpperDigits[i] = ch) - 1
      ELSE -1

\* A sequence given by a rule, as the tuple of its elements (each element is
\* then computed once, when the sequence is built).
Tuple(f) == f \o << >>

\* Statement order: v is computed before w is (w is the value).
Then(v, w) == IF v = v THEN w ELSE w

IsHexStr(s) == \A i \in 1..Len(s) : HexVal(s[i]) >= 0

\* String.prototype.toLowerCase on the characters hexadecimal strings use.
ToLower(s) ==
  Tuple([i \in 1..Len(s) |->
     IF \E j \in 11..16 : UpperDigits[j] = s[i]
       THEN HexDigits[CHOOSE j \in 11..16 : UpperDigits[j] = s[i]]
       ELSE s[i]])

\* s.slice(a, b) of JavaScript, 0-based, b exclusive, for 0 <= a.
Slice(s, a, b) ==
  LET e == IF b > Len(s) THEN Len(s) ELSE b
  IN IF a >= e THEN << >> ELSE SubSeq(s, a + 1, e)

SliceFrom(s, a) == Slice(s, a, Len(s))

\* parseInt(pair, 16) as CryptoJS's Hex.parse uses it on two characters:
\* the longest hexadecimal prefix; NaN (which `<<` turns into 0) when the
\* first character is no digit.
ParseInt16(pair) ==
  IF Len(pair) = 0 \/ HexVal(pair[1]) < 0 THEN 0
  ELSE IF Len(pair) = 1 \/ HexVal(pair[2]) < 0 THEN HexVal(pair[1])
  ELSE 16 * HexVal(pair[1]) + HexVal(pair[2])

XorNibble == [a \in 0..15, b \in 0..15 |->
  LET bit(x, k) == (x \div k) % 2
      d(k) == IF bit(a, k) = bit(b, k) THEN 0 ELSE k
  IN d(1) + d(2) + d(4) + d(8)]

Xor(a, b) == 16 * XorNibble[a \div 16, b \div 16] + XorNibble[a % 16, b % 16]

(***************************************************************************)
(* CryptoJS.lib.WordArray                                                  *)
(***************************************************************************)
\* The bytes of a word list, in order.
WordBytes(words) ==
  Tuple([i \in 1..(4 * Len(words)) |-> words[((i - 1) \div 4) + 1][((i - 1) % 4) + 1]])

\* The word list holding the given bytes, the last word padded with zeroes.
BytesWords(bytes) ==
  Tuple([w \in 1..((Len(bytes) + 3) \div 4) |->
     Tuple([j \in 1..4 |-> IF 4 * (w - 1) + j <= Len(bytes) THEN bytes[4 * (w - 1) + j] ELSE 0])])

\* CryptoJS.lib.WordArray.create(words, sigBytes)
WordArrayCreate(words, sigBytes) == [words |-> words, sigBytes |-> sigBytes]

\* The significant bytes of a WordArray (none when sigBytes <= 0).
SigBytes(wa) ==
  IF wa.sigBytes <= 0 THEN << >>
  ELSE LET b == WordBytes(wa.words)
       IN Tuple([i \in 1..wa.sigBytes |-> IF i <= Len(b) THEN b[i] ELSE 0])

FromBytes(bytes) == WordArrayCreate(BytesWords(bytes), Len(bytes))

\* CryptoJS.enc.Hex.parse: one byte per two characters, sigBytes = length / 2.
HexParse(hexStr) ==
  FromBytes(Tuple([i \in 1..(Len(hexStr) \div 2) |-> ParseInt16(Slice(hexStr, 2 * (i - 1), 2 * i))]))

\* wordArray.toString(CryptoJS.enc.Hex): two lower-case digits per significant byte.
HexStringify(wa) ==
  LET b == SigBytes(wa)
  IN Tuple([i \in 1..(2 * Len(b)) |->
        IF i % 2 = 1 THEN HexDigits[(b[(i + 1) \div 2] \div 16) + 1]
                     ELSE HexDigits[(b[i \div 2] % 16) + 1]])

\* A concat that would put the other array first.
WordArrayConcatReversed(wa, other) == FromBytes(SigBytes(other) \o SigBytes(wa))

\* wordArray.concat(other): appends other's significant bytes to this array
\* in place and returns it.
WordArrayConcat(wa, other) == FromBytes(SigBytes(wa) \o SigBytes(other))

(***************************************************************************)
(* Program constants                                                       *)
(***************************************************************************)
SaltBytes == 16

SaltHexLen == 32

KdfWords == 12

KeyBytes == 32

IvBytes == 16

Iterations == 1000

\* The block size of AES, which is CryptoJS.AES's blockSize (4 words).
BlockBytes == 16

\* A private key is 32 bytes: web3's privateKeyToAccount wants 66 characters.
PrivKeyBytes == 32

(***************************************************************************)
(* CryptoJS.PBKDF2 and applyKDF                                            *)
(***************************************************************************)
\* The UTF-8 code of the characters passwords and messages are made of.
CharCode(ch) ==
  CASE ch = "@" -> 64 [] ch = "P" -> 80 [] ch = "d" -> 100 [] ch = "r" -> 114
    [] ch = "s" -> 115 [] ch = "w" -> 119 [] ch = "h" -> 104 [] ch = "i" -> 105
    [] HexVal(ch) >= 0 /\ HexVal(ch) <= 9 -> 48 + HexVal(ch)
    [] OTHER -> 63

CodeChar(code) ==
  CASE code = 64 -> "@" [] code = 80 -> "P" [] code = 100 -> "d" [] code = 114 -> "r"
    [] code = 115 -> "s" [] code = 119 -> "w" [] code = 104 -> "h" [] code = 105 -> "i"
    [] code >= 48 /\ code <= 57 -> HexDigits[code - 47]
    [] OTHER -> "?"

\* Buffer.from(str) / CryptoJS.enc.Utf8.parse: the bytes of a string.
Utf8Bytes(str) == Tuple([i \in 1..Len(str) |-> CharCode(str[i])])

\* buffer.toString(): the string of UTF-8 bytes.
Utf8String(bytes) == Tuple([i \in 1..Len(bytes) |-> CodeChar(bytes[i])])

RECURSIVE SumRange(_, _, _)
\* f[lo] + ... + f[hi], by halves.
SumRange(f, lo, hi) ==
  IF lo > hi THEN 0
  ELSE IF lo = hi THEN f[lo]
  ELSE LET mid == (lo + hi) \div 2
       IN SumRange(f, lo, mid) + SumRange(f, mid + 1, hi)

RECURSIVE PowMod(_, _, _)
\* base^e modulo m, by squaring.
PowMod(base, e, m) ==
  IF e = 0 THEN 1 % m
  ELSE LET h == PowMod(base, e \div 2, m)
       IN IF e % 2 = 0 THEN (h * h) % m ELSE (((h * h) % m) * base) % m

\* A digest of a byte sequence (the stand-in for the hash functions): every
\* byte weighted by a power of 31 that depends on its place, modulo 65521.
Digest(bytes, seed) ==
  LET n == Len(bytes)
      terms == Tuple([i \in 1..n |-> ((bytes[i] + i) * PowMod(31, n - i, 4093)) % 65521])
  IN (seed * PowMod(31, n, 4093) + SumRange(terms, 1, n)) % 65521

\* CryptoJS.PBKDF2(password, salt, {keySize, iterations}): keySize words that
\* are a function of the password, the salt and the iteration count only.
PBKDF2(password, salt, keySize, iterations) ==
  LET H == Digest(Utf8Bytes(password), 7)
      S == Digest(SigBytes(salt), iterations)
  IN FromBytes(Tuple([i \in 1..(4 * keySize) |->
                  ((H + i * i) * (2 * i + 1) + S * (i + 5) + (H \div 256) * 7 + (S \div 256)) % 256]))

\* A splice that would be given the index in bytes, not in words.
SpliceAtByteIndex(arr, start) ==
  LET from == IF 4 * start > Len(arr) THEN Len(arr) ELSE 4 * start
  IN [removed |-> SubSeq(arr, from + 1, Len(arr)), kept |-> SubSeq(arr, 1, from)]

\* Array.prototype.splice(start): removes the elements from index start on,
\* in place; removed is what it returns, kept is what the array then holds.
Splice(arr, start) ==
  [removed |-> SubSeq(arr, start + 1, Len(arr)), kept |-> SubSeq(arr, 1, start)]

\* applyKDF (lines 155-165).  key is created over keyBytes.words itself, which
\* the splice then cuts to its first 8 words; iv is over the 4 spliced words.
applyKDF(password, salt) ==
  LET keyBytes == PBKDF2(password, salt, KdfWords, Iterations)
      spliced == Splice(keyBytes.words, KeyBytes \div 4)
  IN Then(keyBytes,
          [key |-> WordArrayCreate(spliced.kept, KeyBytes),
           iv  |-> WordArrayCreate(spliced.removed, IvBytes)])

(***************************************************************************)
(* CryptoJS.AES, CBC mode, PKCS7 padding                                   *)
(***************************************************************************)
\* The block function: a permutation of the 16-byte blocks for every key.
BlockEncrypt(key, block) ==
  Tuple([i \in 1..BlockBytes |-> Xor((block[i] + key[i]) % 256, key[BlockBytes + i])])

BlockDecrypt(key, block) ==
  Tuple([i \in 1..BlockBytes |-> (Xor(block[i], key[BlockBytes + i]) + 256 - key[i]) % 256])

XorBlock(a, b) == Tuple([i \in 1..BlockBytes |-> Xor(a[i], b[i])])

\* CryptoJS.pad.Pkcs7.pad: 1..16 bytes, each holding their count.
Pkcs7Pad(bytes) ==
  LET n == BlockBytes - (Len(bytes) % BlockBytes)
  IN bytes \o Tuple([i \in 1..n |-> n])

\* CryptoJS.pad.Pkcs7.unpad: sigBytes -= last byte; the padding is not checked.
Pkcs7Unpad(wa) ==
  LET b == SigBytes(wa)
      n == IF Len(b) = 0 THEN 0 ELSE b[Len(b)]
  IN WordArrayCreate(wa.words, wa.sigBytes - n)

BlockOf(bytes, j) ==
  Tuple([i \in 1..BlockBytes |->
     IF BlockBytes * (j - 1) + i <= Len(bytes) THEN bytes[BlockBytes * (j - 1) + i] ELSE 0])

NBlocks(bytes) == (Len(bytes) + BlockBytes - 1) \div BlockBytes

RECURSIVE CbcEncrypt(_, _, _, _)
\* CBC: each block is combined with the previous cipher block (the IV first).
CbcEncrypt(key, prev, bytes, j) ==
  IF j > NBlocks(bytes) THEN << >>
  ELSE LET c == BlockEncrypt(key, XorBlock(BlockOf(bytes, j), prev))
       IN c \o CbcEncrypt(key, c, bytes, j + 1)

RECURSIVE CbcDecrypt(_, _, _, _)
CbcDecrypt(key, prev, bytes, j) ==
  IF j > NBlocks(bytes) THEN << >>
  ELSE LET c == BlockOf(bytes, j)
       IN XorBlock(BlockDecrypt(key, c), prev) \o CbcDecrypt(key, c, bytes, j + 1)

\* CryptoJS.AES.encrypt(message, key, {iv}) with a WordArray key: .ciphertext
AESEncrypt(message, key, iv) ==
  FromBytes(CbcEncrypt(SigBytes(key), SigBytes(iv), Pkcs7Pad(SigBytes(message)), 1))

\* A decryption that would not be given the IV (CryptoJS then chains from
\* a block of zeros).
AESDecryptWithoutIv(ciphertext, key, iv) ==
  LET ct == SigBytes(ciphertext)
      pt == CbcDecrypt(SigBytes(key), Tuple([i \in 1..BlockBytes |-> 0]), ct, 1)
  IN Pkcs7Unpad(WordArrayCreate(BytesWords(pt), Len(ct)))

\* CryptoJS.AES.decrypt({ciphertext}, key, {iv}) with a WordArray key.
AESDecrypt(ciphertext, key, iv) ==
  LET ct == SigBytes(ciphertext)
      pt == CbcDecrypt(SigBytes(key), SigBytes(iv), ct, 1)
  IN Pkcs7Unpad(WordArrayCreate(BytesWords(pt), Len(ct)))

(***************************************************************************)
(* web3-eth-accounts: privateKeyToAccount                                  *)
(***************************************************************************)
\* The order of the curve secp256k1, as 32 bytes.
CurveOrder ==
  << 255,255,255,255, 255,255,255,255, 255,255,255,255, 255,255,255,254,
     186,174,220,230, 175,72,160,59, 191,210,94,140, 208,54,65,65 >>

\* a < b for two byte sequences of one length read as big-endian numbers.
LessThan(a, b) ==
  \E i \in 1..Len(a) : a[i] < b[i] /\ \A j \in 1..(i - 1) : a[j] = b[j]

IsZero(bytes) == \A i \in 1..Len(bytes) : bytes[i] = 0

StartsWith0x(str) == Slice(str, 0, 2) = <<"0", "x">>

\* The stand-in for the curve: the group of units modulo the prime GroupP,
\* generated by GroupG.  A scalar acts by exponentiation.
GroupP == 251

GroupG == 6

\* The big-endian number of a byte sequence, modulo GroupP - 1.
ScalarMod(bytes) ==
  LET n == Len(bytes)
      terms == Tuple([i \in 1..n |-> (bytes[i] * PowMod(256, n - i, GroupP - 1)) % (GroupP - 1)])
  IN SumRange(terms, 1, n) % (GroupP - 1)

\* The point GroupG^e.
Power(base, e) == PowMod(base, e, GroupP)

\* The 20 address bytes of a public point (the stand-in for keccak256).
AddressBytes(point) == Tuple([i \in 1..20 |-> (point * (2 * i + 1) + i * i) % 256])

\* new Accounts().privateKeyToAccount(privKey): the prefix is added when it
\* is missing, the key must then be 66 characters of hex and a scalar of
\* the curve; it throws otherwise.
privateKeyToAccount(privKey) ==
  LET pk == IF StartsWith0x(privKey) THEN privKey ELSE <<"0", "x">> \o privKey
      hex == SliceFrom(pk, 2)
      bytes == SigBytes(HexParse(hex))
  IN IF Len(pk) # 2 + 2 * PrivKeyBytes THEN [threw |-> "Private key must be 32 bytes long"]
     ELSE IF ~IsHexStr(hex) \/ IsZero(bytes) \/ ~LessThan(bytes, CurveOrder)
       THEN [threw |-> "Expected private key to be a valid scalar"]
     ELSE [threw |-> "",
           address |-> <<"0", "x">> \o HexStringify(FromBytes(AddressBytes(Power(GroupG, ScalarMod(bytes))))),
           privateKey |-> pk]

(***************************************************************************)
(* The facade: accounts                                                    *)
(***************************************************************************)
ErrFormat == "Private Key does not have correct format"

ErrMismatch == "The Encrypted ID and Password entered do not match"

\* What a try block yields: the value of its body, or the catch clause's.
TryCatch(body, caught) == IF body.threw # "" THEN caught ELSE body

\* An accountFromPrivateKey that would not catch what the library throws.
accountFromPrivateKeyNoCatch(privKey) == privateKeyToAccount(privKey)

\* accountFromPrivateKey (lines 173-179)
accountFromPrivateKey(privKey) ==
  TryCatch(privateKeyToAccount(privKey), [threw |-> ErrFormat])

\* freeverseIdFromPrivateKey (lines 186-189): account.address
freeverseIdFromPrivateKey(privKey) ==
  LET account == accountFromPrivateKey(privKey)
  IN IF account.threw # "" THEN account ELSE [threw |-> "", value |-> account.address]

\* web3AddressFromPrivateKey (lines 195-198): account.address
web3AddressFromPrivateKey(privKey) ==
  LET account == accountFromPrivateKey(privKey)
  IN IF account.threw # "" THEN account ELSE [threw |-> "", value |-> account.address]

(***************************************************************************)
(* The facade: the identity codec                                          *)
(***************************************************************************)
\* An encryptIdentity that would use one constant salt, whatever was drawn.
encryptIdentityConstantSalt(pvk, password, salt) ==
  LET constant == FromBytes(Tuple([i \in 1..SaltBytes |-> 0]))
      kdf == applyKDF(password, constant)
      pvkNoTrail == IF Slice(pvk, 0, 2) = <<"0", "x">> THEN SliceFrom(pvk, 2) ELSE pvk
      pvkWords == HexParse(pvkNoTrail)
      ciphertext == AESEncrypt(pvkWords, kdf.key, kdf.iv)
  IN Then(kdf, Then(pvkWords, Then(ciphertext,
       [threw |-> "",
        value |-> HexStringify(WordArrayConcat(constant, ciphertext)),
        kdfSalt |-> constant, pvkWords |-> pvkWords, ciphertext |-> ciphertext])))

\* An encryptIdentity that would not strip the prefix before parsing.
encryptIdentityNoStrip(pvk, password, salt) ==
  LET kdf == applyKDF(password, salt)
      pvkWords == HexParse(pvk)
      ciphertext == AESEncrypt(pvkWords, kdf.key, kdf.iv)
  IN Then(kdf, Then(pvkWords, Then(ciphertext,
       [threw |-> "",
        value |-> HexStringify(WordArrayConcat(salt, ciphertext)),
        kdfSalt |-> salt, pvkWords |-> pvkWords, ciphertext |-> ciphertext])))

\* encryptIdentity (lines 206-214), salt being what WordArray.random(16) drew.
\* The record keeps the locals a property speaks of beside the returned value.
encryptIdentity(pvk, password, salt) ==
  LET kdf == applyKDF(password, salt)
      pvkNoTrail == IF Slice(pvk, 0, 2) = <<"0", "x">> THEN SliceFrom(pvk, 2) ELSE pvk
      pvkWords == HexParse(pvkNoTrail)
      ciphertext == AESEncrypt(pvkWords, kdf.key, kdf.iv)
  IN Then(kdf, Then(pvkWords, Then(ciphertext,
       [threw |-> "",
        value |-> HexStringify(WordArrayConcat(salt, ciphertext)),
        kdfSalt |-> salt, pvkWords |-> pvkWords, ciphertext |-> ciphertext])))

\* A decryptIdentity that would return the key without deriving its address.
decryptIdentityUnchecked(encryptedIdentity, password) ==
  LET salt == HexParse(Slice(encryptedIdentity, 0, SaltHexLen))
      cipherText == HexParse(SliceFrom(encryptedIdentity, SaltHexLen))
      kdf == applyKDF(password, salt)
      plaintextArray == AESDecrypt(cipherText, kdf.key, kdf.iv)
      privKey == <<"0", "x">> \o HexStringify(plaintextArray)
  IN Then(salt, Then(cipherText, Then(kdf, Then(plaintextArray, Then(privKey,
       [threw |-> "", value |-> privKey, kdfSalt |-> salt, cipherText |-> cipherText, inner |-> privKey])))))

\* decryptIdentity (lines 217-246)
decryptIdentity(encryptedIdentity, password) ==
  LET salt == HexParse(Slice(encryptedIdentity, 0, SaltHexLen))
      cipherText == HexParse(SliceFrom(encryptedIdentity, SaltHexLen))
      kdf == applyKDF(password, salt)
      plaintextArray == AESDecrypt(cipherText, kdf.key, kdf.iv)
      privKey == <<"0", "x">> \o HexStringify(plaintextArray)
      checked == TryCatch(web3AddressFromPrivateKey(privKey), [threw |-> ErrMismatch])
  IN Then(salt, Then(cipherText, Then(kdf, Then(plaintextArray, Then(privKey,
       IF checked.threw # ""
         THEN [threw |-> checked.threw, kdfSalt |-> salt, cipherText |-> cipherText, inner |-> privKey]
         ELSE [threw |-> "", value |-> privKey, kdfSalt |-> salt, cipherText |-> cipherText, inner |-> privKey])))))

(***************************************************************************)
(* eth-crypto and eccrypto: ECIES over the stand-in group                  *)
(***************************************************************************)
IvLen == 16

CompressedKeyLen == 33

MacLen == 32

CoordLen == 32

ErrBadMac == "Bad MAC"

ErrBadKey == "Bad private key"

\* A number below 256 as a big-endian coordinate of CoordLen bytes.
Coord(v) == Tuple([i \in 1..CoordLen |-> IF i = CoordLen THEN v ELSE 0])

\* The second coordinate of the point with first coordinate x and the given parity.
PointY(x, parity) == 2 * ((x * x * x + 7) % 100) + parity

\* The point of a scalar: 64 bytes, both coordinates (no 04 prefix).
PointBytes(scalarBytes) ==
  LET e == ScalarMod(scalarBytes)
      x == Power(GroupG, e)
  IN Coord(x) \o Coord(PointY(x, e % 2))

IsScalar(bytes) ==
  Len(bytes) = PrivKeyBytes /\ ~IsZero(bytes) /\ LessThan(bytes, CurveOrder)

\* Buffer.from(hex, 'hex'): the bytes up to the first pair that is not hex.
BufferFromHex(hex) ==
  LET n == Len(hex) \div 2
      ok(i) == HexVal(hex[2 * i - 1]) >= 0 /\ HexVal(hex[2 * i]) >= 0
      m == IF \A i \in 1..n : ok(i) THEN n ELSE (CHOOSE i \in 1..n : ~ok(i) /\ \A j \in 1..(i - 1) : ok(j)) - 1
  IN Tuple([i \in 1..m |-> 16 * HexVal(hex[2 * i - 1]) + HexVal(hex[2 * i])])

\* buffer.toString('hex')
BufferToHex(bytes) == HexStringify(FromBytes(bytes))

\* EthCrypto.publicKeyByPrivateKey: the prefix is added when missing; the
\* 128 hex characters of the point; it throws on a key that is no scalar.
publicKeyByPrivateKey(privKey) ==
  LET pk == IF StartsWith0x(privKey) THEN privKey ELSE <<"0", "x">> \o privKey
      bytes == BufferFromHex(SliceFrom(pk, 2))
  IN IF ~IsScalar(bytes) THEN [threw |-> ErrBadKey]
     ELSE [threw |-> "", value |-> BufferToHex(PointBytes(bytes))]

\* publicKeyFromPrivateKey (line 273)
publicKeyFromPrivateKey(privKey) == publicKeyByPrivateKey(privKey)

\* EthCrypto.publicKey.compress on 64 (or 04 + 64) bytes: 02 or 03, then x.
Compress(pointBytes) ==
  LET b == IF Len(pointBytes) = 2 * CoordLen + 1 THEN Tail(pointBytes) ELSE pointBytes
  IN << 2 + (b[2 * CoordLen] % 2) >> \o SubSeq(b, 1, CoordLen)

\* EthCrypto.publicKey.decompress on 33 bytes: the 64 bytes of the point.
Decompress(compressed) ==
  LET x == SubSeq(compressed, 2, CoordLen + 1)
  IN x \o Coord(PointY(x[CoordLen], compressed[1] - 2))

\* eccrypto.derive(privateKey, publicKey): the first coordinate of the
\* public point raised to the private scalar, as 32 bytes.
Derive(scalarBytes, pointBytes) ==
  Coord(Power(pointBytes[CoordLen], ScalarMod(scalarBytes)))

\* sha512(Px): 64 bytes, the first 32 the encryption key, the last 32 the MAC key.
Sha512(bytes) ==
  LET H == Digest(bytes, 5)
  IN Tuple([i \in 1..64 |-> ((H + i) * (2 * i + 1) + (H \div 256) * i) % 256])

\* hmacSha256(macKey, data): 32 bytes.
HmacSha256(macKey, data) ==
  LET n == Len(data)
      A == SumRange(data, 1, n) % 256
      B == SumRange(Tuple([j \in 1..n |-> (j * data[j]) % 256]), 1, n) % 256
  IN Tuple([i \in 1..MacLen |-> (macKey[i] + A * i + B) % 256])

\* eccrypto.encrypt(publicKeyTo, msg, opts) with the ephemeral key and the
\* IV that were drawn: the four buffers.
EccryptoEncrypt(publicKeyTo, msg, ephemPrivateKey, iv) ==
  LET ephemPublicKey == << 4 >> \o PointBytes(ephemPrivateKey)
      hash == Sha512(Derive(ephemPrivateKey, Tail(publicKeyTo)))
      encryptionKey == SubSeq(hash, 1, 32)
      macKey == SubSeq(hash, 33, 64)
      ciphertext == CbcEncrypt(encryptionKey, iv, Pkcs7Pad(msg), 1)
  IN Then(ephemPublicKey, Then(hash, Then(ciphertext,
       [iv |-> iv, ephemPublicKey |-> ephemPublicKey, ciphertext |-> ciphertext,
        mac |-> HmacSha256(macKey, iv \o ephemPublicKey \o ciphertext)])))

\* Node's decipher.final(): the padding is checked (it throws when bad).
Pkcs7UnpadChecked(bytes) ==
  LET n == IF Len(bytes) = 0 THEN 0 ELSE bytes[Len(bytes)]
  IN IF n < 1 \/ n > BlockBytes \/ n > Len(bytes)
        \/ \E i \in (Len(bytes) - n + 1)..Len(bytes) : bytes[i] # n
       THEN [threw |-> "bad decrypt"]
       ELSE [threw |-> "", value |-> SubSeq(bytes, 1, Len(bytes) - n)]

\* eccrypto.decrypt(privateKey, opts): the MAC is verified, then the
\* ciphertext decrypted.  macOk records whether the MAC of the message was
\* found equal to the one recomputed.
EccryptoDecrypt(privateKey, enc) ==
  LET hash == Sha512(Derive(privateKey, Tail(enc.ephemPublicKey)))
      encryptionKey == SubSeq(hash, 1, 32)
      macKey == SubSeq(hash, 33, 64)
      realMac == HmacSha256(macKey, enc.iv \o enc.ephemPublicKey \o enc.ciphertext)
      plain == Pkcs7UnpadChecked(CbcDecrypt(encryptionKey, enc.iv, enc.ciphertext, 1))
  IN IF ~IsScalar(privateKey) THEN [threw |-> ErrBadKey, macOk |-> FALSE]
     ELSE IF Then(hash, realMac) # enc.mac THEN [threw |-> ErrBadMac, macOk |-> FALSE]
     ELSE IF plain.threw # "" THEN [threw |-> plain.threw, macOk |-> TRUE]
     ELSE [threw |-> "", value |-> plain.value, macOk |-> TRUE]

\* EthCrypto.encryptWithPublicKey(publicKey, message): the object of four
\* hex strings.
EthEncryptWithPublicKey(publicKey, message, ephemPrivateKey, iv) ==
  LET e == EccryptoEncrypt(<< 4 >> \o BufferFromHex(publicKey), Utf8Bytes(message), ephemPrivateKey, iv)
  IN [iv |-> BufferToHex(e.iv), ephemPublicKey |-> BufferToHex(e.ephemPublicKey),
      ciphertext |-> BufferToHex(e.ciphertext), mac |-> BufferToHex(e.mac)]

\* EthCrypto.cipher.stringify: iv, compressed key, mac, ciphertext, in hex.
CipherStringify(cipher) ==
  BufferToHex(BufferFromHex(cipher.iv)
              \o Compress(BufferFromHex(cipher.ephemPublicKey))
              \o BufferFromHex(cipher.mac)
              \o BufferFromHex(cipher.ciphertext))

\* EthCrypto.cipher.parse: the four parts at their fixed places.
CipherParse(str) ==
  LET buf == BufferFromHex(str)
      part(a, b) == IF a >= Len(buf) THEN << >> ELSE SubSeq(buf, a + 1, IF b > Len(buf) THEN Len(buf) ELSE b)
  IN [iv |-> BufferToHex(part(0, IvLen)),
      ephemPublicKey |-> BufferToHex(<< 4 >> \o Decompress(part(IvLen, IvLen + CompressedKeyLen))),
      mac |-> BufferToHex(part(IvLen + CompressedKeyLen, IvLen + CompressedKeyLen + MacLen)),
      ciphertext |-> BufferToHex(part(IvLen + CompressedKeyLen + MacLen, Len(buf)))]

\* EthCrypto.decryptWithPrivateKey(privateKey, encrypted): the 0x is
\* stripped, the plaintext a string.
EthDecryptWithPrivateKey(privateKey, encrypted) ==
  LET twoStripped == IF StartsWith0x(privateKey) THEN SliceFrom(privateKey, 2) ELSE privateKey
      d == EccryptoDecrypt(BufferFromHex(twoStripped),
             [iv |-> BufferFromHex(encrypted.iv),
              ephemPublicKey |-> BufferFromHex(encrypted.ephemPublicKey),
              ciphertext |-> BufferFromHex(encrypted.ciphertext),
              mac |-> BufferFromHex(encrypted.mac)])
  IN Then(encrypted, IF d.threw # "" THEN d
                     ELSE [threw |-> "", value |-> Utf8String(d.value), macOk |-> d.macOk])

(***************************************************************************)
(* The facade: the message codec                                           *)
(***************************************************************************)
\* An encryptWithPublicKey that would join the four hex strings of the
\* object itself instead of calling cipher.stringify.
encryptWithPublicKeyJoined(textToEncrypt, publicKey, ephemPrivateKey, iv) ==
  LET encryptedObject == EthEncryptWithPublicKey(publicKey, textToEncrypt, ephemPrivateKey, iv)
  IN Then(encryptedObject,
       [threw |-> "",
        value |-> encryptedObject.iv \o encryptedObject.ephemPublicKey
                    \o encryptedObject.mac \o encryptedObject.ciphertext])

\* encryptWithPublicKey (lines 250-259): the library's object, stringified.
encryptWithPublicKey(textToEncrypt, publicKey, ephemPrivateKey, iv) ==
  LET encryptedObject == EthEncryptWithPublicKey(publicKey, textToEncrypt, ephemPrivateKey, iv)
      encryptedString == CipherStringify(encryptedObject)
  IN Then(encryptedObject, [threw |-> "", value |-> encryptedString])

\* A decryptWithPrivateKey that would catch what the library throws and
\* return the empty string.
decryptWithPrivateKeySwallowing(encryptedString, privateKey) ==
  LET encryptedObject == CipherParse(encryptedString)
      decrypted == EthDecryptWithPrivateKey(privateKey, encryptedObject)
  IN Then(encryptedObject,
       IF decrypted.threw # "" THEN [threw |-> "", value |-> << >>, macOk |-> decrypted.macOk]
       ELSE decrypted)

\* decryptWithPrivateKey (lines 262-271): the string parsed, then decrypted.
decryptWithPrivateKey(encryptedString, privateKey) ==
  LET encryptedObject == CipherParse(encryptedString)
      decrypted == EthDecryptWithPrivateKey(privateKey, encryptedObject)
  IN Then(encryptedObject, decrypted)

(***************************************************************************)
(* The inputs the calls are made with, and the values the random source    *)
(* can return                                                              *)
(***************************************************************************)
\* Base private keys (each in four spellings).
NumKeys == 1

\* Candidate passwords, of PasswordList.
NumPasswords == 3

\* Values WordArray.random(16) can return.
NumSalts == 2

\* Recipients of messages (key pairs).
NumRecipients == 2

\* Plaintexts, of MessageList.
NumMessages == 2

\* Ephemeral keys and IVs eccrypto can draw.
NumEphem == 2

NumIvs == 1

\* Concurrent calls of the facade.
MaxCalls == 2

\* Calls of applyKDF, one after the other.
NumKdfCalls == 2

Prefix0x == <<"0", "x">>

ToUpper(s) ==
  Tuple([i \in 1..Len(s) |->
     IF HexVal(s[i]) >= 10 THEN UpperDigits[HexVal(s[i]) + 1] ELSE s[i]])

KeyBytesOf(i) == Tuple([j \in 1..PrivKeyBytes |-> (37 * i + 11 * j) % 256])

KeyHex(i) == HexStringify(FromBytes(KeyBytesOf(i)))

\* The key as web3 prints it: 0x and lower-case hex.
CanonKey(i) == Prefix0x \o KeyHex(i)

\* The spellings of valid keys: with and without 0x, lower and upper case.
ValidKeys ==
  UNION {{CanonKey(i), KeyHex(i), Prefix0x \o ToUpper(KeyHex(i)), ToUpper(KeyHex(i))} : i \in 1..NumKeys}

Repeat(ch, n) == Tuple([i \in 1..n |-> ch])

\* Malformed keys: the test's short string, a key that is not hex, the
\* scalar zero, a scalar above the order of the curve, and a key one byte long.
MalformedKeys ==
  { <<"1","2","3","2","1","3","1","2","3">>,
    Prefix0x \o <<"z", "z">> \o Repeat("1", 2 * PrivKeyBytes - 2),
    Prefix0x \o Repeat("0", 2 * PrivKeyBytes),
    Prefix0x \o Repeat("f", 2 * PrivKeyBytes),
    Prefix0x \o Repeat("a", 2 * PrivKeyBytes + 2) }

PasswordList ==
  << <<"P","@","s","s","w","0","r","d">>,
     <<"P","@","s","s","w","0","r","d","1">>,
     <<"P","@","s","s","w","0","r","d","1","1","9">>,
     <<"1","2","3","4">> >>

Passwords == {PasswordList[i] : i \in 1..NumPasswords}

SaltOf(i) == FromBytes(Tuple([j \in 1..SaltBytes |-> (53 * i + 29 * j) % 256]))

Salts == {SaltOf(i) : i \in 1..NumSalts}

MessageList ==
  << <<"h","i">>,
     <<"P","@","s","s","w","0","r","d","1","2","3","4","5","6","7","8","9">>,
     <<"w","i","s","h","4">> >>

Messages == {MessageList[i] : i \in 1..NumMessages}

\* Recipient r holds the private key CanonKey(r).
Recipients == 1..NumRecipients

EphemOf(i) == KeyBytesOf(NumRecipients + 1 + i)

IvOf(i) == Tuple([j \in 1..IvLen |-> (91 * i + 7 * j) % 256])

(***************************************************************************)
(* State.  Four groups of variables, one per specification:               *)
(*   identity codec and accounts: enc1, enc2, dec, acct                    *)
(*   message codec:               menc, mdec, mpub                         *)
(*   concurrent facade calls:     pc, given, locals, result, overlap       *)
(*   applyKDF, line by line:      kdfCalls, heap                           *)
(***************************************************************************)
VARIABLES enc1, enc2, dec, acct, menc, mdec, mpub, pc, given, locals, result, overlap, kdfCalls, heap

idVars == <<enc1, enc2, dec, acct>>

msgVars == <<menc, mdec, mpub>>

callVars == <<pc, given, locals, result, overlap>>

kdfVars == <<kdfCalls, heap>>

vars == <<enc1, enc2, dec, acct, menc, mdec, mpub, pc, given, locals, result, overlap, kdfCalls, heap>>

NoCall == [op |-> "none"]

CallIds == 1..MaxCalls

KdfCallIds == 1..NumKdfCalls

Init ==
  /\ enc1 = NoCall /\ enc2 = NoCall /\ dec = NoCall /\ acct = NoCall
  /\ menc = NoCall /\ mdec = NoCall /\ mpub = NoCall
  /\ pc = [c \in CallIds |-> "idle"]
  /\ given = [c \in CallIds |-> NoCall]
  /\ locals = [c \in CallIds |-> NoCall]
  /\ result = [c \in CallIds |-> NoCall]
  /\ overlap = [c \in CallIds |-> FALSE]
  /\ kdfCalls = [n \in KdfCallIds |-> NoCall]
  /\ heap = << >>

(***************************************************************************)
(* The identity codec and the accounts, call after call                    *)
(***************************************************************************)
\* A first call of encryptIdentity(pvk, password); the random source gives salt.
EncryptIdentity ==
  /\ enc1 = NoCall /\ acct = NoCall
  /\ \E pvk \in ValidKeys, password \in Passwords, salt \in Salts :
       enc1' = [op |-> "encryptIdentity", pvk |-> pvk, password |-> password, salt |-> salt,
                ret |-> encryptIdentity(pvk, password, salt)]
  /\ UNCHANGED <<enc2, dec, acct, msgVars, callVars, kdfVars>>

\* A second call of encryptIdentity with the same key and password.
EncryptIdentityAgain ==
  /\ enc1 # NoCall /\ enc2 = NoCall /\ dec = NoCall
  /\ \E salt \in Salts :
       enc2' = [op |-> "encryptIdentity", pvk |-> enc1.pvk, password |-> enc1.password, salt |-> salt,
                ret |-> encryptIdentity(enc1.pvk, enc1.password, salt)]
  /\ UNCHANGED <<enc1, dec, acct, msgVars, callVars, kdfVars>>

\* decryptIdentity(encryptedIdentity, password) on what the first call returned.
DecryptIdentity ==
  /\ enc1 # NoCall /\ enc2 = NoCall /\ dec = NoCall
  /\ \E password \in Passwords :
       dec' = [op |-> "decryptIdentity", encryptedIdentity |-> enc1.ret.value, password |-> password,
               ret |-> decryptIdentity(enc1.ret.value, password)]
  /\ UNCHANGED <<enc1, enc2, acct, msgVars, callVars, kdfVars>>

AccountFromPrivateKey ==
  /\ enc1 = NoCall /\ acct = NoCall
  /\ \E privKey \in ValidKeys \cup MalformedKeys :
       acct' = [op |-> "accountFromPrivateKey", privKey |-> privKey, ret |-> accountFromPrivateKey(privKey)]
  /\ UNCHANGED <<enc1, enc2, dec, msgVars, callVars, kdfVars>>

FreeverseIdFromPrivateKey ==
  /\ enc1 = NoCall /\ acct = NoCall
  /\ \E privKey \in ValidKeys \cup MalformedKeys :
       acct' = [op |-> "freeverseIdFromPrivateKey", privKey |-> privKey, ret |-> freeverseIdFromPrivateKey(privKey)]
  /\ UNCHANGED <<enc1, enc2, dec, msgVars, callVars, kdfVars>>

Web3AddressFromPrivateKey ==
  /\ enc1 = NoCall /\ acct = NoCall
  /\ \E privKey \in ValidKeys \cup MalformedKeys :
       acct' = [op |-> "web3AddressFromPrivateKey", privKey |-> privKey, ret |-> web3AddressFromPrivateKey(privKey)]
  /\ UNCHANGED <<enc1, enc2, dec, msgVars, callVars, kdfVars>>

\* createNewAccount (line 169): the account of a key the library draws.
createNewAccount(i) == privateKeyToAccount(CanonKey(i))

CreateNewAccount ==
  /\ enc1 = NoCall /\ acct = NoCall
  /\ \E i \in 1..NumKeys :
       acct' = [op |-> "createNewAccount", privKey |-> CanonKey(i), ret |-> createNewAccount(i)]
  /\ UNCHANGED <<enc1, enc2, dec, msgVars, callVars, kdfVars>>

\* The calls have returned; the next ones start afresh.
IdentityDone ==
  /\ idVars # <<NoCall, NoCall, NoCall, NoCall>>
  /\ enc1' = NoCall /\ enc2' = NoCall /\ dec' = NoCall /\ acct' = NoCall
  /\ UNCHANGED <<msgVars, callVars, kdfVars>>

NextIdentity ==
  \/ EncryptIdentity
  \/ EncryptIdentityAgain
  \/ DecryptIdentity
  \/ AccountFromPrivateKey
  \/ FreeverseIdFromPrivateKey
  \/ Web3AddressFromPrivateKey
  \/ CreateNewAccount
  \/ IdentityDone

SpecIdentity == Init /\ [][NextIdentity]_vars

(***************************************************************************)
(* The message codec, call after call                                      *)
(***************************************************************************)
PublicKeyOf(r) == publicKeyFromPrivateKey(CanonKey(r)).value

\* The spellings of the private key of recipient r.
PrivateKeysOf(r) == {CanonKey(r), KeyHex(r)}

\* The bytes of an encrypted string that hold the MAC and the ciphertext
\* (counted from 0).
MacAndCiphertextBytes(str) == (IvLen + CompressedKeyLen)..((Len(str) \div 2) - 1)

\* What is added to a byte to change it.
TamperDeltas == {1, 128}

\* The encrypted string with the byte at pos changed by delta.
Tamper(str, pos, delta) ==
  LET buf == BufferFromHex(str)
  IN BufferToHex([buf EXCEPT ![pos + 1] = (@ + delta) % 256])

PublicKeyFromPrivateKey ==
  /\ menc = NoCall /\ mpub = NoCall
  /\ \E privKey \in (UNION {PrivateKeysOf(r) : r \in Recipients}) \cup MalformedKeys :
       mpub' = [op |-> "publicKeyFromPrivateKey", privKey |-> privKey, ret |-> publicKeyFromPrivateKey(privKey)]
  /\ UNCHANGED <<menc, mdec, idVars, callVars, kdfVars>>

\* encryptWithPublicKey(textToEncrypt, publicKey), awaited; the library
\* draws the ephemeral key and the IV.
EncryptWithPublicKey ==
  /\ menc = NoCall /\ mpub = NoCall
  /\ \E m \in Messages, r \in Recipients, e \in 1..NumEphem, v \in 1..NumIvs :
       menc' = [op |-> "encryptWithPublicKey", textToEncrypt |-> m, publicKey |-> PublicKeyOf(r),
                recipient |-> r,
                ret |-> encryptWithPublicKey(m, PublicKeyOf(r), EphemOf(e), IvOf(v))]
  /\ UNCHANGED <<mdec, mpub, idVars, callVars, kdfVars>>

\* decryptWithPrivateKey(encryptedString, privateKey), awaited, on the
\* string the encryption returned, with the key of any recipient.
DecryptWithPrivateKey ==
  /\ menc # NoCall /\ mdec = NoCall
  /\ \E r \in Recipients : \E privateKey \in PrivateKeysOf(r) :
       mdec' = [op |-> "decryptWithPrivateKey", encryptedString |-> menc.ret.value,
                privateKey |-> privateKey, holder |-> r, tampered |-> FALSE,
                ret |-> decryptWithPrivateKey(menc.ret.value, privateKey)]
  /\ UNCHANGED <<menc, mpub, idVars, callVars, kdfVars>>

\* decryptWithPrivateKey, by the recipient, on the string with one byte of
\* its MAC or of its ciphertext changed.
DecryptTampered ==
  /\ menc # NoCall /\ mdec = NoCall
  /\ \E pos \in MacAndCiphertextBytes(menc.ret.value), delta \in TamperDeltas :
       LET str == Tamper(menc.ret.value, pos, delta)
       IN mdec' = [op |-> "decryptWithPrivateKey", encryptedString |-> str,
                   privateKey |-> CanonKey(menc.recipient), holder |-> menc.recipient,
                   tampered |-> TRUE, pos |-> pos,
                   ret |-> decryptWithPrivateKey(str, CanonKey(menc.recipient))]
  /\ UNCHANGED <<menc, mpub, idVars, callVars, kdfVars>>

MessageDone ==
  /\ msgVars # <<NoCall, NoCall, NoCall>>
  /\ menc' = NoCall /\ mdec' = NoCall /\ mpub' = NoCall
  /\ UNCHANGED <<idVars, callVars, kdfVars>>

NextMessage ==
  \/ PublicKeyFromPrivateKey
  \/ EncryptWithPublicKey
  \/ DecryptWithPrivateKey
  \/ DecryptTampered
  \/ MessageDone

SpecMessage == Init /\ [][NextMessage]_vars

(***************************************************************************)
(* Concurrent calls of the facade.  Call c runs in an activation of its    *)
(* own, locals[Frame(c)], holding its parameters, what it drew and, for    *)
(* an async function, the promise it awaits.  The functions that are not   *)
(* async run to completion in one step; encryptWithPublicKey and           *)
(* decryptWithPrivateKey give way to the other calls at their await.       *)
(*   pc[c]      "idle", "awaiting" or "done"                               *)
(*   given[c]   what the caller passed, and what the random source gave    *)
(*   result[c]  what the call returned or threw                            *)
(*   overlap[c] whether another call started while c was awaiting          *)
(***************************************************************************)
None == << >>

Call(op, a1, a2, draw) == [op |-> op, a1 |-> a1, a2 |-> a2, draw |-> draw]

\* An encrypted identity and an encrypted message to decrypt.
IdentityOfOne == encryptIdentity(CanonKey(1), PasswordList[1], SaltOf(1)).value

MessageForOne == encryptWithPublicKey(MessageList[1], PublicKeyOf(1), EphemOf(1), IvOf(1)).value

\* The calls that are made, with what the random source can give each.
Calls ==
  {Call("accountFromPrivateKey", k, None, None) : k \in {CanonKey(1), <<"1","2","3","2","1","3","1","2","3">>}}
  \cup {Call("freeverseIdFromPrivateKey", CanonKey(1), None, None)}
  \cup {Call("web3AddressFromPrivateKey", KeyHex(1), None, None)}
  \cup {Call("createNewAccount", None, None, i) : i \in 1..NumKeys}
  \cup {Call("publicKeyFromPrivateKey", CanonKey(1), None, None)}
  \cup {Call("encryptIdentity", CanonKey(1), PasswordList[1], salt) : salt \in Salts}
  \cup {Call("decryptIdentity", IdentityOfOne, PasswordList[i], None) : i \in 1..2}
  \cup {Call("encryptWithPublicKey", MessageList[1], PublicKeyOf(1), <<EphemOf(e), IvOf(1)>>) : e \in 1..NumEphem}
  \cup {Call("decryptWithPrivateKey", MessageForOne, CanonKey(r), None) : r \in 1..2}

\* What the function of a call returns, from the parameters and the draws
\* bound in its activation.
Returned(frame) ==
  CASE frame.op = "accountFromPrivateKey" -> accountFromPrivateKey(frame.a1)
    [] frame.op = "freeverseIdFromPrivateKey" -> freeverseIdFromPrivateKey(frame.a1)
    [] frame.op = "web3AddressFromPrivateKey" -> web3AddressFromPrivateKey(frame.a1)
    [] frame.op = "createNewAccount" -> createNewAccount(frame.draw)
    [] frame.op = "publicKeyFromPrivateKey" -> publicKeyFromPrivateKey(frame.a1)
    [] frame.op = "encryptIdentity" -> encryptIdentity(frame.a1, frame.a2, frame.draw)
    [] frame.op = "decryptIdentity" -> decryptIdentity(frame.a1, frame.a2)
    [] frame.op = "encryptWithPublicKey" -> encryptWithPublicKey(frame.a1, frame.a2, frame.draw[1], frame.draw[2])
    [] frame.op = "decryptWithPrivateKey" -> decryptWithPrivateKey(frame.a1, frame.a2)

\* The promise an async function awaits: the library's call, made before
\* the await with the parameters of the activation.
Awaited(frame) ==
  CASE frame.op = "encryptWithPublicKey" -> EthEncryptWithPublicKey(frame.a2, frame.a1, frame.draw[1], frame.draw[2])
    [] frame.op = "decryptWithPrivateKey" -> EthDecryptWithPrivateKey(frame.a2, CipherParse(frame.a1))

\* The two, computed once for each call.
ReturnedOf == [call \in Calls |-> Returned(call)] @@ << >>

AwaitedOf ==
  [call \in {x \in Calls : x.op \in {"encryptWithPublicKey", "decryptWithPrivateKey"}} |-> Awaited(call)] @@ << >>

\* One activation for all the calls.
FrameShared(c) == 1

\* The activation of call c: its own.
Frame(c) == c

\* A function that is not async: called, run and returned in one step.
Run(c, op) ==
  /\ pc[c] = "idle"
  /\ \E call \in Calls :
       /\ call.op = op
       /\ given' = [given EXCEPT ![c] = call]
       /\ locals' = [locals EXCEPT ![Frame(c)] = call]
       /\ result' = [result EXCEPT ![c] = ReturnedOf[locals'[Frame(c)]]]
  /\ pc' = [pc EXCEPT ![c] = "done"]
  /\ UNCHANGED <<overlap, idVars, msgVars, kdfVars>>

\* An async function, up to its await: the library is called with the
\* parameters, and the call waits for the promise.
Start(c, op) ==
  /\ pc[c] = "idle"
  /\ \E call \in Calls :
       /\ call.op = op
       /\ given' = [given EXCEPT ![c] = call]
       /\ locals' = [locals EXCEPT ![Frame(c)] =
                       [op |-> call.op, a1 |-> call.a1, a2 |-> call.a2, draw |-> call.draw,
                        promise |-> AwaitedOf[call]]]
  /\ pc' = [pc EXCEPT ![c] = "awaiting"]
  /\ overlap' = [d \in CallIds |-> overlap[d] \/ (d # c /\ pc[d] = "awaiting")]
  /\ UNCHANGED <<result, idVars, msgVars, kdfVars>>

CallAccountFromPrivateKey(c) == Run(c, "accountFromPrivateKey")

CallFreeverseIdFromPrivateKey(c) == Run(c, "freeverseIdFromPrivateKey")

CallWeb3AddressFromPrivateKey(c) == Run(c, "web3AddressFromPrivateKey")

CallCreateNewAccount(c) == Run(c, "createNewAccount")

CallPublicKeyFromPrivateKey(c) == Run(c, "publicKeyFromPrivateKey")

CallEncryptIdentity(c) == Run(c, "encryptIdentity")

CallDecryptIdentity(c) == Run(c, "decryptIdentity")

\* encryptWithPublicKey, lines 250-255
StartEncryptWithPublicKey(c) == Start(c, "encryptWithPublicKey")

\* encryptWithPublicKey, lines 252 and 257-258: the object is stringified.
ResumeEncryptWithPublicKey(c) ==
  /\ pc[c] = "awaiting" /\ given[c].op = "encryptWithPublicKey"
  /\ LET encryptedObject == locals[Frame(c)].promise
     IN result' = [result EXCEPT ![c] = [threw |-> "", value |-> CipherStringify(encryptedObject)]]
  /\ pc' = [pc EXCEPT ![c] = "done"]
  /\ UNCHANGED <<given, locals, overlap, idVars, msgVars, kdfVars>>

\* decryptWithPrivateKey, lines 262-269
StartDecryptWithPrivateKey(c) == Start(c, "decryptWithPrivateKey")

\* decryptWithPrivateKey, lines 266 and 270: what the promise settled to.
ResumeDecryptWithPrivateKey(c) ==
  /\ pc[c] = "awaiting" /\ given[c].op = "decryptWithPrivateKey"
  /\ LET decrypted == locals[Frame(c)].promise
     IN result' = [result EXCEPT ![c] = decrypted]
  /\ pc' = [pc EXCEPT ![c] = "done"]
  /\ UNCHANGED <<given, locals, overlap, idVars, msgVars, kdfVars>>

\* The caller has the result; the activation is gone.
Return(c) ==
  /\ pc[c] = "done"
  /\ pc' = [pc EXCEPT ![c] = "idle"]
  /\ given' = [given EXCEPT ![c] = NoCall]
  /\ locals' = [locals EXCEPT ![Frame(c)] = NoCall]
  /\ result' = [result EXCEPT ![c] = NoCall]
  /\ overlap' = [overlap EXCEPT ![c] = FALSE]
  /\ UNCHANGED <<idVars, msgVars, kdfVars>>

Next ==
  \/ \E c \in CallIds : CallAccountFromPrivateKey(c)
  \/ \E c \in CallIds : CallFreeverseIdFromPrivateKey(c)
  \/ \E c \in CallIds : CallWeb3AddressFromPrivateKey(c)
  \/ \E c \in CallIds : CallCreateNewAccount(c)
  \/ \E c \in CallIds : CallPublicKeyFromPrivateKey(c)
  \/ \E c \in CallIds : CallEncryptIdentity(c)
  \/ \E c \in CallIds : CallDecryptIdentity(c)
  \/ \E c \in CallIds : StartEncryptWithPublicKey(c)
  \/ \E c \in CallIds : ResumeEncryptWithPublicKey(c)
  \/ \E c \in CallIds : StartDecryptWithPrivateKey(c)
  \/ \E c \in CallIds : ResumeDecryptWithPrivateKey(c)
  \/ \E c \in CallIds : Return(c)

Spec == Init /\ [][Next]_vars

(***************************************************************************)
(* applyKDF (lines 155-165), statement by statement.  A WordArray object   *)
(* holds a reference to its array of words: heap[a] is the array at        *)
(* address a, and a WordArray here is [words |-> address, sigBytes].       *)
(*   kdfCalls[n].at  "derive" before line 156, "key" before line 158, "iv" *)
(*              before line 160, "return" before line 161, "returned"      *)
(*   kdfCalls[n].keyAtCreation  the bytes of key when line 158 created it  *)
(***************************************************************************)
\* The WordArray value of an object: its array read from the heap.
Deref(wa) == WordArrayCreate(heap[wa.words], wa.sigBytes)

\* applyKDF(password, salt) is called, once the call before it has returned.
KdfCall(n) ==
  /\ kdfCalls[n] = NoCall
  /\ n > 1 => (kdfCalls[n - 1] # NoCall /\ kdfCalls[n - 1].at = "returned")
  /\ \E password \in Passwords, salt \in Salts :
       kdfCalls' = [kdfCalls EXCEPT ![n] =
                 [op |-> "applyKDF", at |-> "derive", password |-> password, salt |-> salt,
                  keyBytes |-> None, key |-> None, iv |-> None, keyAtCreation |-> None]]
  /\ UNCHANGED <<heap, idVars, msgVars, callVars>>

\* line 156: keyBytes is a new WordArray over a new array of 12 words.
KdfDerive(n) ==
  /\ kdfCalls[n] # NoCall /\ kdfCalls[n].at = "derive"
  /\ LET out == PBKDF2(kdfCalls[n].password, kdfCalls[n].salt, KdfWords, Iterations)
     IN /\ heap' = Append(heap, out.words)
        /\ kdfCalls' = [kdfCalls EXCEPT ![n].keyBytes = [words |-> Len(heap) + 1, sigBytes |-> out.sigBytes],
                              ![n].at = "key"]
  /\ UNCHANGED <<idVars, msgVars, callVars>>

\* line 158: key is a new WordArray over the array of keyBytes itself.
KdfKey(n) ==
  /\ kdfCalls[n] # NoCall /\ kdfCalls[n].at = "key"
  /\ LET key == [words |-> kdfCalls[n].keyBytes.words, sigBytes |-> KeyBytes]
     IN kdfCalls' = [kdfCalls EXCEPT ![n].key = key,
                           ![n].keyAtCreation = SigBytes(Deref(key)),
                           ![n].at = "iv"]
  /\ UNCHANGED <<heap, idVars, msgVars, callVars>>

\* line 160: the splice cuts the array of keyBytes in place and returns a
\* new array, over which iv is created.
KdfIv(n) ==
  /\ kdfCalls[n] # NoCall /\ kdfCalls[n].at = "iv"
  /\ LET a == kdfCalls[n].keyBytes.words
         spliced == Splice(heap[a], KeyBytes \div 4)
     IN /\ heap' = Append([heap EXCEPT ![a] = spliced.kept], spliced.removed)
        /\ kdfCalls' = [kdfCalls EXCEPT ![n].iv = [words |-> Len(heap) + 1, sigBytes |-> IvBytes],
                              ![n].at = "return"]
  /\ UNCHANGED <<idVars, msgVars, callVars>>

\* lines 161-164: { key, iv } is returned.
KdfReturn(n) ==
  /\ kdfCalls[n] # NoCall /\ kdfCalls[n].at = "return"
  /\ kdfCalls' = [kdfCalls EXCEPT ![n].at = "returned"]
  /\ UNCHANGED <<heap, idVars, msgVars, callVars>>

\* The callers are done with what the calls returned.
KdfDone ==
  /\ kdfCalls[1] # NoCall
  /\ \A n \in KdfCallIds : kdfCalls[n] # NoCall => kdfCalls[n].at = "returned"
  /\ kdfCalls' = [n \in KdfCallIds |-> NoCall]
  /\ heap' = << >>
  /\ UNCHANGED <<idVars, msgVars, callVars>>

NextKdf ==
  \/ \E n \in KdfCallIds : KdfCall(n)
  \/ \E n \in KdfCallIds : KdfDerive(n)
  \/ \E n \in KdfCallIds : KdfKey(n)
  \/ \E n \in KdfCallIds : KdfIv(n)
  \/ \E n \in KdfCallIds : KdfReturn(n)
  \/ KdfDone

SpecKdf == Init /\ [][NextKdf]_vars

(***************************************************************************)
(* Properties of the identity codec and of the accounts (SpecIdentity)     *)
(***************************************************************************)
Strip0x(k) == IF StartsWith0x(k) THEN SliceFrom(k, 2) ELSE k

\* The spelling web3 prints: the prefix, then lower-case hex.
Canonical(k) == Prefix0x \o ToLower(Strip0x(k))

AccountOps == {"accountFromPrivateKey", "freeverseIdFromPrivateKey", "web3AddressFromPrivateKey"}

\* C1 as stated: decrypting what encryptIdentity(k, p) returned, with p,
\* returns exactly the string k, for every spelling of a valid key.
C1_ReturnsExactlyK ==
  (dec # NoCall /\ dec.password = enc1.password)
    => (dec.ret.threw = "" /\ dec.ret.value = enc1.pvk)

\* C1, amended: decrypting what encryptIdentity(k, p) returned, with p,
\* never throws and returns the canonical spelling of k (0x, then lower-case
\* hex), whatever salt was drawn; that is k itself exactly when k was given
\* in its canonical spelling.
C1_RoundTrip ==
  (dec # NoCall /\ dec.password = enc1.password)
    => /\ dec.ret.threw = ""
       /\ dec.ret.value = Canonical(enc1.pvk)
       /\ (dec.ret.value = enc1.pvk) <=> (enc1.pvk = Canonical(enc1.pvk))

C1_Witness ==
  /\ dec # NoCall /\ dec.password = enc1.password
  /\ enc1.pvk = CanonKey(1) /\ enc1.salt = SaltOf(NumSalts)
  /\ dec.ret.threw = "" /\ dec.ret.value = enc1.pvk

\* C2 as stated: decrypting what encryptIdentity(k, p1) returned with a
\* password p2 other than p1 throws the identity-mismatch error and returns
\* no key.
C2_WrongPasswordFails ==
  (dec # NoCall /\ dec.password # enc1.password)
    => (dec.ret.threw = ErrMismatch /\ "value" \notin DOMAIN dec.ret)

C7_PrefixPrepended ==
  (dec # NoCall /\ dec.password = enc1.password /\ ~StartsWith0x(enc1.pvk))
    => (dec.ret.threw = "" /\ dec.ret.value = Prefix0x \o enc1.pvk)

\* C7, amended: encryptIdentity encrypts the 32 raw bytes of the key whether
\* or not it is given with the prefix; every key decryptIdentity returns
\* starts with 0x; and for a valid key k given without prefix, decrypting
\* with the password of the encryption returns '0x' + k in lower case.
C7_PrefixNormalisation ==
  /\ enc1 # NoCall
       => \A i \in 1..NumKeys :
            Canonical(enc1.pvk) = CanonKey(i) => SigBytes(enc1.ret.pvkWords) = KeyBytesOf(i)
  /\ (dec # NoCall /\ dec.ret.threw = "") => StartsWith0x(dec.ret.value)
  /\ (dec # NoCall /\ dec.password = enc1.password /\ ~StartsWith0x(enc1.pvk))
       => (dec.ret.threw = "" /\ dec.ret.value = Prefix0x \o ToLower(enc1.pvk))

C7_Witness ==
  /\ dec # NoCall /\ dec.password = enc1.password
  /\ enc1.pvk = ToUpper(KeyHex(1)) /\ enc1.pvk # KeyHex(1)
  /\ dec.ret.threw = "" /\ dec.ret.value = CanonKey(1)

\* C8: what encryptIdentity returns is the 32 hex characters of the salt it
\* drew, then the hex of the ciphertext, and nothing else; that salt is the
\* 16 bytes its KDF was given; decryptIdentity gives its KDF the salt read
\* from the first 32 characters and decrypts the ciphertext read from the
\* rest.
C8_WireFormat ==
  /\ enc1 # NoCall
       => /\ Len(SigBytes(enc1.salt)) = SaltBytes
          /\ SigBytes(enc1.ret.kdfSalt) = SigBytes(enc1.salt)
          /\ Slice(enc1.ret.value, 0, 2 * SaltBytes) = HexStringify(enc1.salt)
          /\ SliceFrom(enc1.ret.value, 2 * SaltBytes) = HexStringify(enc1.ret.ciphertext)
          /\ Len(enc1.ret.value) = 2 * SaltBytes + 2 * Len(SigBytes(enc1.ret.ciphertext))
  /\ dec # NoCall
       => /\ SigBytes(dec.ret.kdfSalt) = SigBytes(enc1.salt)
          /\ SigBytes(dec.ret.cipherText) = SigBytes(enc1.ret.ciphertext)

C8_Witness ==
  /\ dec # NoCall
  /\ SigBytes(dec.ret.kdfSalt) = SigBytes(SaltOf(1))
  /\ Len(enc1.ret.value) = 2 * SaltBytes + 2 * (PrivKeyBytes + BlockBytes)

\* C9: every key decryptIdentity returns is one whose address derivation
\* succeeds; when the derivation on the decrypted bytes fails,
\* decryptIdentity throws the identity-mismatch error, never 'Private Key
\* does not have correct format', and returns nothing.
C9_ValidateBeforeReturn ==
  dec # NoCall
    => /\ dec.ret.threw = ""
            => ("value" \in DOMAIN dec.ret /\ web3AddressFromPrivateKey(dec.ret.value).threw = "")
       /\ web3AddressFromPrivateKey(dec.ret.inner).threw # ""
            => (dec.ret.threw = ErrMismatch /\ "value" \notin DOMAIN dec.ret)
       /\ dec.ret.threw # ErrFormat

C9_Witness ==
  /\ dec # NoCall /\ dec.password # enc1.password
  /\ web3AddressFromPrivateKey(dec.ret.inner).threw = ErrFormat
  /\ dec.ret.threw = ErrMismatch

(***************************************************************************)
(* Properties of the message codec (SpecMessage)                           *)
(***************************************************************************)
\* C5: a message encrypted for the public key pk, decrypted with a private
\* key sk such that pk = publicKeyFromPrivateKey(sk), resolves to the
\* plaintext that was encrypted.
C5_MessageRoundTrip ==
  (mdec # NoCall /\ ~mdec.tampered
     /\ publicKeyFromPrivateKey(mdec.privateKey).value = menc.publicKey)
    => (mdec.ret.threw = "" /\ mdec.ret.value = menc.textToEncrypt)

C5_Witness ==
  /\ mdec # NoCall /\ ~mdec.tampered /\ mdec.holder = menc.recipient
  /\ Len(menc.textToEncrypt) > BlockBytes
  /\ mdec.ret.threw = "" /\ mdec.ret.value = menc.textToEncrypt

\* C6: when the value of a byte of the MAC or of the ciphertext of an
\* encrypted string is changed, decryptWithPrivateKey fails with 'Bad MAC';
\* and whenever decryptWithPrivateKey returns a plaintext, the MAC of the
\* message was verified.
C6_TamperDetection ==
  mdec # NoCall
    => /\ mdec.tampered => (mdec.ret.threw = ErrBadMac /\ "value" \notin DOMAIN mdec.ret)
       /\ "value" \in DOMAIN mdec.ret => mdec.ret.macOk

C6_Witness ==
  /\ mdec # NoCall /\ mdec.tampered
  /\ mdec.pos >= IvLen + CompressedKeyLen + MacLen
  /\ mdec.encryptedString # menc.ret.value
  /\ mdec.ret.threw = ErrBadMac

(***************************************************************************)
(* Properties of concurrent calls (Spec)                                   *)
(***************************************************************************)
ArgsOf(frame) == [op |-> frame.op, a1 |-> frame.a1, a2 |-> frame.a2, draw |-> frame.draw]

\* C10: however the calls interleave, a call that has not returned still
\* holds the arguments and the draws it was given (no other call wrote
\* them, and it did not change them itself), and what a call returns is
\* what its function returns for its own arguments and draws.
C10_Statelessness ==
  \A c \in CallIds :
    /\ pc[c] # "idle" => ArgsOf(locals[Frame(c)]) = given[c]
    /\ pc[c] = "done" => result[c] = ReturnedOf[given[c]]

C10_Witness ==
  \E c, d \in CallIds :
    /\ c # d /\ overlap[c]
    /\ pc[c] = "done" /\ given[c].op = "encryptWithPublicKey"
    /\ pc[d] = "awaiting" /\ given[d].op = "encryptWithPublicKey" /\ given[d] # given[c]
    /\ result[c] = ReturnedOf[given[c]] /\ result[c] # ReturnedOf[given[d]]

(***************************************************************************)
(* Properties of applyKDF (SpecKdf)                                        *)
(***************************************************************************)
\* The bytes PBKDF2 gives for the password and the salt of call n.
KdfOutput(n) == SigBytes(PBKDF2(kdfCalls[n].password, kdfCalls[n].salt, KdfWords, Iterations))

\* C11: what applyKDF(password, salt) returns is the same for the same
\* password and salt; its key is the first 32 bytes (8 words) and its IV the
\* next 16 bytes (4 words) of the 48 bytes PBKDF2 gives; the splice leaves
\* the 32 bytes of the key as they were when the key was created; and the
\* key and the IV are over different arrays.
C11_KdfSplit ==
  /\ \A n \in KdfCallIds :
       (kdfCalls[n] # NoCall /\ kdfCalls[n].at \in {"return", "returned"})
         => /\ Len(KdfOutput(n)) = 4 * KdfWords
            /\ SigBytes(Deref(kdfCalls[n].key)) = SubSeq(KdfOutput(n), 1, KeyBytes)
            /\ SigBytes(Deref(kdfCalls[n].iv)) = SubSeq(KdfOutput(n), KeyBytes + 1, KeyBytes + IvBytes)
            /\ Len(heap[kdfCalls[n].key.words]) = KeyBytes \div 4
            /\ Len(heap[kdfCalls[n].iv.words]) = IvBytes \div 4
            /\ SigBytes(Deref(kdfCalls[n].key)) = kdfCalls[n].keyAtCreation
            /\ kdfCalls[n].key.words # kdfCalls[n].iv.words
            /\ Deref(kdfCalls[n].key) = applyKDF(kdfCalls[n].password, kdfCalls[n].salt).key
            /\ Deref(kdfCalls[n].iv) = applyKDF(kdfCalls[n].password, kdfCalls[n].salt).iv
  /\ \A n, o \in KdfCallIds :
       (kdfCalls[n] # NoCall /\ kdfCalls[o] # NoCall /\ kdfCalls[n].at = "returned" /\ kdfCalls[o].at = "returned"
          /\ kdfCalls[n].password = kdfCalls[o].password /\ kdfCalls[n].salt = kdfCalls[o].salt)
         => (Deref(kdfCalls[n].key) = Deref(kdfCalls[o].key) /\ Deref(kdfCalls[n].iv) = Deref(kdfCalls[o].iv))

C11_Witness ==
  /\ kdfCalls[1] # NoCall /\ kdfCalls[2] # NoCall
  /\ kdfCalls[1].at = "returned" /\ kdfCalls[2].at = "returned"
  /\ kdfCalls[1].password = kdfCalls[2].password /\ kdfCalls[1].salt = kdfCalls[2].salt
  /\ kdfCalls[1].key.words # kdfCalls[2].key.words
  /\ Deref(kdfCalls[1].key) = Deref(kdfCalls[2].key) /\ Deref(kdfCalls[1].iv) = Deref(kdfCalls[2].iv)
  /\ Len(heap[kdfCalls[2].keyBytes.words]) = KeyBytes \div 4

====
